---- MODULE Spec2Model ----
(***************************************************************************)
(* Model of the regensburg_transport sensor platform                       *)
(* (homeassistant/components/regensburg_transport/sensor.py).              *)
(*                                                                         *)
(* State: the TransportSensor instances created by async_setup_platform,   *)
(* the class attribute TransportSensor.stop_events, and a record of the    *)
(* most recent async_update call (the HTTP exchange it saw, the request it *)
(* issued, what it returned or raised and what it logged).                 *)
(***************************************************************************)
EXTENDS Integers, Sequences, FiniteSets, TLC

VARIABLES sensors, class_stop_events, call

vars == <<sensors, class_stop_events, call>>

(* ------------------------------ bounds --------------------------------- *)

\* departures entries in the platform configuration
MaxSensors == 2
\* stop identifiers are the integers 1..MaxStopId
MaxStopId == 2
\* records in a response's stopEvents array
MaxRecords == 2
\* planned timestamps are 1..MaxPlanned
MaxPlanned == 2

Lines == {"A", "B"}

(* --------------------------- program constants ------------------------- *)

URL == "https://efa.rvv.de/efa/XML_DM_REQUEST"
TIMEOUT == 30
NAME_DM == "de:09362:12009"

(* ------------------------------ helpers -------------------------------- *)

RECURSIVE SeqsUpTo(_, _)
SeqsUpTo(S, n) ==
    IF n = 0 THEN {<<>>}
    ELSE LET shorter == SeqsUpTo(S, n - 1)
         IN  shorter \cup {Append(s, e) : s \in {t \in shorter : Len(t) = n - 1}, e \in S}

Map(F(_), s) == [i \in 1..Len(s) |-> F(s[i])]

\* str(int): decimal formatting
Digit(d) ==
    CASE d = 0 -> "0" [] d = 1 -> "1" [] d = 2 -> "2" [] d = 3 -> "3"
      [] d = 4 -> "4" [] d = 5 -> "5" [] d = 6 -> "6" [] d = 7 -> "7"
      [] d = 8 -> "8" [] d = 9 -> "9"

RECURSIVE str(_)
str(n) == IF n < 10 THEN Digit(n) ELSE str(n \div 10) \o Digit(n % 10)

(* ------------------------- the remote service -------------------------- *)

\* one raw departure record of the stopEvents array
RawRecords == [planned : 1..MaxPlanned, line : Lines]

\* Outcomes of the HTTP exchange of one requests.get call:
\*   connection_error  connection refused / DNS failure (ConnectionError)
\*   http_error        a 4xx/5xx status (raise_for_status raises HTTPError)
\*   timeout           no answer within the timeout (Timeout)
\*   invalid_json      success status, body is not JSON
\*   json_not_object   success status, body is JSON but not an object
\*   json_object       success status, body is a JSON object, with or
\*                     without a stopEvents member
Failure(kind) == [kind |-> kind, has_stopEvents |-> FALSE, stopEvents |-> <<>>]

Failures ==
    {Failure(k) : k \in {"connection_error", "http_error", "timeout",
                         "invalid_json", "json_not_object", "json_object"}}

Payload(stopEvents) ==
    [kind |-> "json_object", has_stopEvents |-> TRUE, stopEvents |-> stopEvents]

\* every outcome with a stopEvents array of up to MaxRecords records
Responses == Failures \cup {Payload(p) : p \in SeqsUpTo(RawRecords, MaxRecords)}

\* the outcomes the sensors of a whole platform are polled with: every
\* failure, an empty array, one departure, two departures out of order
PollResponses ==
    Failures \cup
    {Payload(<<>>),
     Payload(<<[planned |-> 1, line |-> "A"]>>),
     Payload(<<[planned |-> 2, line |-> "B"], [planned |-> 1, line |-> "A"]>>)}

(* ------------------------------ StopEvent ------------------------------ *)

from_dict(departure) ==
    [planned |-> departure.planned, transportation_line |-> departure.line]

to_dict(event) ==
    [planned |-> event.planned, line |-> event.transportation_line]

(* --------------------------- sorted(key=planned) ----------------------- *)

\* position at which a stable sort places e in the sorted prefix s:
\* after every element whose key is not greater than e's
RECURSIVE InsertPos(_, _, _)
InsertPos(e, s, i) ==
    IF i > Len(s) THEN i
    ELSE IF s[i].planned > e.planned THEN i
    ELSE InsertPos(e, s, i + 1)

Insert(e, s) ==
    LET p == InsertPos(e, s, 1)
    IN  SubSeq(s, 1, p - 1) \o <<e>> \o SubSeq(s, p, Len(s))

RECURSIVE SortFrom(_, _, _)
SortFrom(unsorted, i, acc) ==
    IF i > Len(unsorted) THEN acc
    ELSE SortFrom(unsorted, i + 1, Insert(unsorted[i], acc))

\* an unstable sort: e goes before the elements of equal key
RECURSIVE InsertPosBeforeEqual(_, _, _)
InsertPosBeforeEqual(e, s, i) ==
    IF i > Len(s) THEN i
    ELSE IF s[i].planned >= e.planned THEN i
    ELSE InsertPosBeforeEqual(e, s, i + 1)

RECURSIVE SortFromUnstable(_, _, _)
SortFromUnstable(unsorted, i, acc) ==
    IF i > Len(unsorted) THEN acc
    ELSE LET e == unsorted[i]
             p == InsertPosBeforeEqual(e, acc, 1)
         IN  SortFromUnstable(unsorted, i + 1,
                              SubSeq(acc, 1, p - 1) \o <<e>> \o SubSeq(acc, p, Len(acc)))

sorted_unstable(unsorted) == SortFromUnstable(unsorted, 1, <<>>)

sorted(unsorted) == SortFrom(unsorted, 1, <<>>)

(* ---------------------------- TransportSensor -------------------------- *)

\* TransportSensor.__init__: the instance has no stop_events attribute of its
\* own yet (bound = FALSE), so reads fall through to the class attribute
TransportSensor(config) ==
    [stop_id |-> config.stop_id,
     direction |-> "Test",
     walking_time |-> 1,
     bound |-> FALSE,
     own_stop_events |-> <<>>]

\* attribute lookup self.stop_events: instance attribute, else class attribute
stop_events(self, cls) == IF self.bound THEN self.own_stop_events ELSE cls

unique_id(self) == "stop_" \o str(self.stop_id) \o "_departures"

RequestParams(self) ==
    [mode |-> "direct",
     outputFormat |-> "rapidJSON",
     type_dm |-> "any",
     useRealtime |-> "1",
     name_dm |-> NAME_DM]

Request(self) == [url |-> URL, params |-> RequestParams(self), timeout |-> TIMEOUT]

Raise(exc, log) == [raised |-> exc, value |-> <<>>, log |-> log]
Return(value, log) == [raised |-> "none", value |-> value, log |-> log]

OnHTTPError == Return(<<>>, <<"warning">>)

\* the timeout reported at error level
OnTimeout_error == Return(<<>>, <<"error">>)

OnTimeout == Return(<<>>, <<"warning">>)

\* the decode error reported as a warning first
OnInvalidJSON_warned(log) == Return(<<>>, log \o <<"warning", "error">>)

OnInvalidJSON(log) == Return(<<>>, Append(log, "error"))

\* response.json().get("stopEvents")
JsonGetStopEvents(response) ==
    [present |-> response.has_stopEvents, value |-> response.stopEvents]

\* the conversion without the sort
ConvertOnly(stopEvents) == Map(from_dict, stopEvents)

ConvertAndSort(stopEvents) == sorted(Map(from_dict, stopEvents))

fetch_departures(self, response) ==
    IF response.kind = "connection_error" THEN Raise("ConnectionError", <<>>)
    ELSE IF response.kind = "http_error" THEN OnHTTPError
    ELSE IF response.kind = "timeout" THEN OnTimeout
    ELSE LET log == <<"debug">>
         IN  IF response.kind = "invalid_json" THEN OnInvalidJSON(log)
             ELSE IF response.kind = "json_not_object" THEN Raise("AttributeError", log)
             ELSE LET stopEvents == JsonGetStopEvents(response)
                  IN  IF ~stopEvents.present THEN Raise("TypeError", log)
                      ELSE Return(ConvertAndSort(stopEvents.value), log)

\* the last stored event instead of the first
next_departure_last(self, cls) ==
    LET events == stop_events(self, cls)
    IN  IF Len(events) > 0 THEN [present |-> TRUE, event |-> <<events[Len(events)]>>]
        ELSE [present |-> FALSE, event |-> <<>>]

next_departure(self, cls) ==
    LET events == stop_events(self, cls)
    IN  IF Len(events) > 0 THEN [present |-> TRUE, event |-> <<events[1]>>]
        ELSE [present |-> FALSE, event |-> <<>>]

extra_state_attributes(self, cls) ==
    [departures |-> Map(to_dict, stop_events(self, cls))]

\* the new events appended to the stored ones
InstanceAfterExtend(self, value) ==
    [self EXCEPT !.bound = TRUE, !.own_stop_events = self.own_stop_events \o value]

\* self.stop_events = value binds the instance attribute ...
InstanceAfterAssign(self, value) ==
    [self EXCEPT !.bound = TRUE, !.own_stop_events = value]

\* the assignment made on the class
ClassAfterAssign_shared(cls, value) == value

\* ... and leaves the class attribute alone
ClassAfterAssign(cls, value) == cls

NoCall ==
    [sensor |-> 0, response |-> Failure("none"), request |-> <<>>,
     raised |-> "none", value |-> <<>>, log |-> <<>>]

(* -------------------------------- actions ------------------------------ *)

Departure == [stop_id : 1..MaxStopId]

\* platform configurations: CONF_DEPARTURES with up to MaxSensors entries
Configs == SeqsUpTo(Departure, MaxSensors)

Init ==
    /\ sensors = <<>>
    /\ class_stop_events = <<>>
    /\ call = NoCall

async_setup_platform(config) ==
    /\ sensors = <<>>
    /\ config # <<>>
    /\ sensors' = Map(TransportSensor, config)
    /\ UNCHANGED <<class_stop_events, call>>

async_update(i, response) ==
    LET self == sensors[i]
        r    == fetch_departures(self, response)
    IN  /\ call' = [sensor |-> i, response |-> response, request |-> <<Request(self)>>,
                    raised |-> r.raised, value |-> r.value, log |-> r.log]
        /\ IF r.raised = "none"
           THEN /\ sensors' = [sensors EXCEPT ![i] = InstanceAfterAssign(self, r.value)]
                /\ class_stop_events' = ClassAfterAssign(class_stop_events, r.value)
           ELSE UNCHANGED <<sensors, class_stop_events>>

\* one sensor, polled with every outcome of the HTTP exchange
Next ==
    \/ \E departure \in Departure : async_setup_platform(<<departure>>)
    \/ \E i \in DOMAIN sensors : \E response \in Responses : async_update(i, response)

Spec == Init /\ [][Next]_vars

\* a platform of up to MaxSensors sensors, their update cycles interleaved
PlatformNext ==
    \/ \E config \in Configs : async_setup_platform(config)
    \/ \E i \in DOMAIN sensors : \E response \in PollResponses : async_update(i, response)

PlatformSpec == Init /\ [][PlatformNext]_vars

(* ------------------------------ properties ----------------------------- *)

Count(e, s) == Cardinality({k \in 1..Len(s) : s[k] = e})

\* the same elements, each as often
SameElements(s, t) ==
    /\ Len(s) = Len(t)
    /\ \A k \in 1..Len(s) : Count(s[k], s) = Count(s[k], t)

SortedByPlanned(s) == \A k \in 1..(Len(s) - 1) : s[k].planned <= s[k + 1].planned

\* the elements of s planned at p, in the order they have in s
PlannedAt(s, p) == LET At(e) == e.planned = p IN SelectSeq(s, At)

Called == call.sensor # 0

GotPayload == Called /\ call.response.kind = "json_object" /\ call.response.has_stopEvents

HandledFailure == Called /\ call.response.kind \in {"http_error", "timeout", "invalid_json"}

AnyFailure == Called /\ ~GotPayload

WarningOrHigher(level) == level \in {"warning", "error", "critical"}

Stored(i) == stop_events(sensors[i], class_stop_events)

\* C1: a response with a stopEvents array of N records makes fetch_departures
\* return N StopEvents, one per record, in non-decreasing order of planned.
C1_OnePerRecordSorted ==
    GotPayload =>
        /\ call.raised = "none"
        /\ Len(call.value) = Len(call.response.stopEvents)
        /\ SameElements(call.value, Map(from_dict, call.response.stopEvents))
        /\ SortedByPlanned(call.value)

C1_Witness ==
    /\ GotPayload
    /\ call.raised = "none"
    /\ Len(call.response.stopEvents) = 2
    /\ call.response.stopEvents[1].planned > call.response.stopEvents[2].planned

\* C2: fetch_departures never raises, whatever the outcome of the HTTP
\* exchange, and returns an empty list on every failure outcome.
C2_NeverRaises ==
    Called =>
        /\ call.raised = "none"
        /\ (AnyFailure => call.value = <<>>)

\* C3: the request carries name_dm equal to the string form of the sensor's
\* stop identifier, besides the four fixed parameters.
C3_RequestNamesStop ==
    Called =>
        LET params == call.request[1].params
        IN  /\ params.name_dm = str(sensors[call.sensor].stop_id)
            /\ params.mode = "direct"
            /\ params.outputFormat = "rapidJSON"
            /\ params.type_dm = "any"
            /\ params.useRealtime = "1"

\* C4: a JSON object without a stopEvents member makes fetch_departures return
\* an empty list, without raising.
C4_MissingFieldIsEmpty ==
    (Called /\ call.response.kind = "json_object" /\ ~call.response.has_stopEvents) =>
        /\ call.raised = "none"
        /\ call.value = <<>>

\* C5: the sort is stable: the StopEvents built from records of the same
\* planned value come out in the order of their records in the array.
C5_StableSort ==
    GotPayload =>
        \A p \in 1..MaxPlanned :
            PlannedAt(call.value, p) = PlannedAt(Map(from_dict, call.response.stopEvents), p)

C5_Witness ==
    /\ GotPayload
    /\ call.raised = "none"
    /\ \E j, k \in 1..Len(call.response.stopEvents) :
          /\ j < k
          /\ call.response.stopEvents[j].planned = call.response.stopEvents[k].planned
          /\ call.response.stopEvents[j] # call.response.stopEvents[k]

\* C6: on an HTTP error status or a timeout fetch_departures returns an empty
\* list, raises nothing and logs exactly one entry, at warning level.
C6_OneWarning ==
    (Called /\ call.response.kind \in {"http_error", "timeout"}) =>
        /\ call.raised = "none"
        /\ call.value = <<>>
        /\ call.log = <<"warning">>

C6_Witness == Called /\ call.response.kind = "timeout" /\ call.log # <<>>

\* C7: on a body that is not JSON fetch_departures returns an empty list and
\* its only entry at warning level or above is one error entry.
C7_OneError ==
    (Called /\ call.response.kind = "invalid_json") =>
        /\ call.raised = "none"
        /\ call.value = <<>>
        /\ SelectSeq(call.log, WarningOrHigher) = <<"error">>

C7_Witness == Called /\ call.response.kind = "invalid_json" /\ Len(call.log) = 2

\* C8: next_departure is absent when the stored list is empty or not yet
\* populated, and otherwise is the first stored event, which no other stored
\* event precedes in planned.
C8_NextIsEarliest ==
    \A i \in DOMAIN sensors :
        LET next == next_departure(sensors[i], class_stop_events)
        IN  IF Stored(i) = <<>>
            THEN ~next.present
            ELSE /\ next.present
                 /\ next.event[1] = Stored(i)[1]
                 /\ \A k \in 1..Len(Stored(i)) : next.event[1].planned <= Stored(i)[k].planned

C8_Witness ==
    /\ Called
    /\ Len(Stored(call.sensor)) = 2
    /\ Stored(call.sensor)[1].planned < Stored(call.sensor)[2].planned
    /\ call.response.stopEvents # <<>>
    /\ call.response.stopEvents[1].planned = Stored(call.sensor)[2].planned

\* C9: a completed async_update leaves the sensor with exactly the events of
\* that cycle's fetch, in its stored list and in its departures attribute, and
\* with an empty list when the fetch failed with a handled error.
C9_ReplacedWholesale ==
    (Called /\ call.raised = "none") =>
        /\ Stored(call.sensor) = call.value
        /\ extra_state_attributes(sensors[call.sensor], class_stop_events).departures
               = Map(to_dict, call.value)
        /\ (GotPayload =>
               SameElements(Stored(call.sensor), Map(from_dict, call.response.stopEvents)))
        /\ (HandledFailure => Stored(call.sensor) = <<>>)

C9_Witness ==
    /\ HandledFailure
    /\ call.raised = "none"
    /\ sensors[call.sensor].bound
    /\ Stored(call.sensor) = <<>>

\* C10: an async_update changes the stored list of no sensor but its own, and a
\* sensor that was never assigned a list reads an empty one.
C10_OwnListOnly ==
    /\ [](\A i \in DOMAIN sensors : ~sensors[i].bound => Stored(i) = <<>>)
    /\ [][\A i \in DOMAIN sensors :
             (i \in DOMAIN sensors' /\ Stored(i)' # Stored(i)) => call'.sensor = i]_vars

C10_Witness ==
    /\ Called
    /\ call.raised = "none"
    /\ \E i \in DOMAIN sensors :
          /\ i # call.sensor
          /\ sensors[i].bound
          /\ Stored(i) # <<>>
          /\ Stored(i) # Stored(call.sensor)

====
